---- MODULE Spec2Model ----
(***************************************************************************)
(* Model of the workflow graph and execution engine of alchemist           *)
(* (alchemist/core/workflow.py, alchemist/core/component.py).              *)
(*                                                                         *)
(* The graph part follows Workflow.add_component, remove_component,        *)
(* connect_components and _update_execution_order; the engine part         *)
(* follows Workflow.execute, cut at the one point where the coroutine      *)
(* suspends (the await of component.execute).                              *)
(***************************************************************************)
EXTENDS Naturals, Sequences, FiniteSets, TLC

\* Component names the caller may use.
Names == {"A", "B", "C", "D"}

\* Bound on the number of add/remove/connect calls of one behaviour of Spec.
MaxOps == 4

\* Bound on the number of add/connect calls of one behaviour of SpecBuild.
MaxBuildOps == 8

\* Bound on the number of add/remove/connect calls of one behaviour of
\* SpecChain, and the names those calls use.
MaxChainOps == 5

ChainNames == {"A", "B", "C"}

\* Bound on the number of structural calls of one behaviour of SpecValidate
\* and of SpecGraphView.
MaxInspectOps == 5

\* Bound on the number of changes a caller makes to one returned mapping.
MaxEdits == 1

\* Bound on the number of structural calls of one behaviour of SpecReuse
\* and of SpecConcurrent, and the names those calls use.
MaxPairOps == 3

PairNames == {"A", "B"}

\* Number of execute() call frames modelled.
NumRuns == 2

Runs == 1..NumRuns

\* Keys a caller may use in initial_inputs: one that is also a component
\* name and one that is not.
SeedKeys == {"A", "input_data"}

VARIABLES
    components,       \* Workflow.components: the keys, in dict insertion order
    dependencies,     \* Component.dependencies of the component held under each key
    outputs,          \* Component.outputs of the component held under each key
    execution_order,  \* Workflow.execution_order
    err,              \* how the last add/remove/connect call ended
    nops,             \* number of add/remove/connect calls made so far
    pristine,         \* history: every call so far was an add or connect that returned normally
    status,           \* Workflow.status
    cstatus,          \* Component.status of the component held under each key
    runs,             \* the execute() call frames: locals, position and returned result
    config_ok,        \* what validate_config() of the component held under each key returns
    validate_result,  \* what the last validate() call returned, and the graph it left
    graph_result      \* the mapping the last get_component_graph() call returned, as the caller holds it

vars == <<components, dependencies, outputs, execution_order, err, nops, pristine,
          status, cstatus, runs, config_ok, validate_result, graph_result>>

inspectVars == <<validate_result, graph_result>>

runVars == <<status, runs>>

graphVars == <<components, dependencies, outputs, execution_order>>

Range(s) == {s[i] : i \in 1..Len(s)}

\* Position of name n in sequence s, 0 when absent.
IndexOf(s, n) == IF n \in Range(s) THEN CHOOSE i \in 1..Len(s) : s[i] = n ELSE 0

\* del d[name] on an insertion-ordered dict: the other keys keep their order.
RECURSIVE Without(_, _)
Without(s, n) ==
    IF s = <<>> THEN <<>>
    ELSE IF Head(s) = n THEN Without(Tail(s), n)
    ELSE <<Head(s)>> \o Without(Tail(s), n)

\* Mutation of add_dependency: the name is appended without looking for it.
add_dependency_always(deps, dependency) == Append(deps, dependency)

\* Component.add_dependency / Component.add_output: append unless present.
add_dependency(deps, dependency) ==
    IF dependency \in Range(deps) THEN deps ELSE Append(deps, dependency)

add_output(outs, output) ==
    IF output \in Range(outs) THEN outs ELSE Append(outs, output)

(***************************************************************************)
(* _update_execution_order: depth-first topological sort.  The traversal   *)
(* state st is [visited, order, raised]; temp is temp_visited, which in    *)
(* the code always equals the set of nodes on the recursion stack.  calls  *)
(* counts the calls of visit() made so far.                                *)
(***************************************************************************)
EmptyVisit == [visited |-> {}, order |-> <<>>, raised |-> FALSE, calls |-> 0]

\* Mutation of MarkDone: the node is put in front of the order.
MarkDonePrepend(st, node) ==
    [st EXCEPT !.visited = @ \cup {node}, !.order = <<node>> \o @]

\* The tail of visit(): visited.add(node); order.append(node).
MarkDone(st, node) ==
    [st EXCEPT !.visited = @ \cup {node}, !.order = Append(@, node)]

RECURSIVE visit(_, _, _, _, _)
RECURSIVE visitDeps(_, _, _, _, _)

visit(node, st, temp, comps, dps) ==
    IF st.raised THEN st
    ELSE IF node \in temp THEN [st EXCEPT !.raised = TRUE, !.calls = @ + 1]
    ELSE IF node \in st.visited THEN [st EXCEPT !.calls = @ + 1]
    ELSE LET st1 == [st EXCEPT !.calls = @ + 1]
             st2 == visitDeps(dps[node], st1, temp \cup {node}, comps, dps)
         IN  IF st2.raised THEN st2 ELSE MarkDone(st2, node)

\* The for loop of visit() over get_dependencies().
visitDeps(ds, st, temp, comps, dps) ==
    IF ds = <<>> \/ st.raised THEN st
    ELSE LET d   == Head(ds)
             st1 == IF d \in Range(comps) THEN visit(d, st, temp, comps, dps) ELSE st
         IN  visitDeps(Tail(ds), st1, temp, comps, dps)

\* The for loop of _update_execution_order over self.components.
RECURSIVE visitAll(_, _, _, _)
visitAll(todo, st, comps, dps) ==
    IF todo = <<>> \/ st.raised THEN st
    ELSE LET st1 == IF Head(todo) \notin st.visited
                    THEN visit(Head(todo), st, {}, comps, dps) ELSE st
         IN  visitAll(Tail(todo), st1, comps, dps)

RECURSIVE Reverse(_)
Reverse(s) == IF s = <<>> THEN <<>> ELSE Append(Reverse(Tail(s)), Head(s))

\* Mutation of update_execution_order: the components are visited from the
\* last inserted to the first.
update_execution_order_reversed(comps, dps) ==
    visitAll(Reverse(comps), EmptyVisit, comps, dps)

\* Result of _update_execution_order on the graph (comps, dps):
\* raised is TRUE when it raises "Circular dependency detected".
update_execution_order(comps, dps) == visitAll(comps, EmptyVisit, comps, dps)

\* The effect of a call to _update_execution_order made at the end of a
\* handler: self.execution_order is assigned only when no cycle is found.
Reorder(comps, dps) ==
    LET r == update_execution_order(comps, dps)
    IN  IF r.raised
        THEN /\ execution_order' = execution_order
             /\ err' = "circular"
        ELSE /\ execution_order' = r.order
             /\ err' = "ok"

(***************************************************************************)
(* Workflow.execute.  A call frame is a record:                            *)
(*   pc                 "idle" (not called), "await" (suspended in         *)
(*                      component.execute), "done" (returned),             *)
(*                      "cancelled" (left by a CancelledError)             *)
(*   order              the list the for loop iterates                     *)
(*   pos                index in order of the current iteration            *)
(*   initial_inputs     the argument as it was at the call                 *)
(*   component_outputs  the output table (initial_inputs or {})            *)
(*   result_status, component_results, errors   the WorkflowResult         *)
(*   inputs             what each invoked component was handed             *)
(*   trace              the calls and returns of component.execute         *)
(***************************************************************************)
EmptyMap == [k \in {} |-> "none"]

Put(m, k, v) == [x \in (DOMAIN m) \cup {k} |-> IF x = k THEN v ELSE m[x]]

\* Payloads.  The caller seeds a list of numbers under key k.  The steps are
\* those of the example scenario: A ingests [1,2,3], B doubles each element
\* of what it is handed under "A", C totals what it is handed under "B";
\* any other step returns an opaque value.
Seed(k) == <<7, 7>>

Double(xs) == [i \in 1..Len(xs) |-> 2 * xs[i]]

RECURSIVE Sum(_)
Sum(xs) == IF xs = <<>> THEN 0 ELSE Head(xs) + Sum(Tail(xs))

Data(n, inputs) ==
    CASE n = "A" -> <<1, 2, 3>>
      [] n = "B" -> IF "A" \in DOMAIN inputs THEN Double(inputs["A"]) ELSE <<>>
      [] n = "C" -> IF "B" \in DOMAIN inputs THEN Sum(inputs["B"]) ELSE 0
      [] OTHER   -> <<"data", n>>

\* The initial_inputs arguments tried: None/empty or a mapping over SeedKeys.
InitialInputs == {[k \in K |-> Seed(k)] : K \in SUBSET SeedKeys}

\* The errors list a failing component may put in its result.
ErrorLists == {<<>>, <<"Mock component failure">>}

IdleRun ==
    [pc |-> "idle", order |-> <<>>, pos |-> 0,
     initial_inputs |-> EmptyMap, component_outputs |-> EmptyMap,
     result_status |-> "none", component_results |-> EmptyMap, errors |-> <<>>,
     inputs |-> EmptyMap, trace |-> <<>>]

\* Mutation of prepare_component_inputs: the dependencies are not looked up.
prepare_component_inputs_none(deps, available_outputs) == EmptyMap

\* Workflow._prepare_component_inputs.
prepare_component_inputs(deps, available_outputs) ==
    [d \in {x \in Range(deps) : x \in DOMAIN available_outputs} |-> available_outputs[d]]

\* Mutation of is_failed: a failed result is not noticed.
is_failed_never(result) == FALSE

\* The test of line 122: component_result.status == ComponentStatus.FAILED.
is_failed(result) == result = "FAILED"

\* Mutation of extend_errors: the component's errors are not taken over.
extend_errors_dropped(errs, more) == errs

\* result.errors.extend(component_result.errors), line 124.
extend_errors(errs, more) == errs \o more

\* Mutation of except_clause: the exception is swallowed without marking
\* the run failed or recording the message.
except_clause_silent(rec, msg, cs) ==
    [run |-> [rec EXCEPT !.pc = "done"], status |-> status, cstatus |-> cs]

\* The except clause of execute, followed by the return.
except_clause(rec, msg, cs) ==
    [run     |-> [rec EXCEPT !.pc = "done", !.result_status = "FAILED",
                             !.errors = Append(@, msg)],
     status  |-> "FAILED",
     cstatus |-> cs]

\* Mutation of record_result: only a result that is not Failed is recorded.
record_result_unless_failed(results, name, result) ==
    IF result = "FAILED" THEN results ELSE Put(results, name, result)

\* result.component_results[component_name] = component_result, line 120.
record_result(results, name, result) == Put(results, name, result)

\* Mutation of mark_running: every component is marked, not only the one
\* about to be invoked.
mark_running_all(cs, name) == [n \in DOMAIN cs |-> "RUNNING"]

\* component.status = ComponentStatus.RUNNING, line 111.
mark_running(cs, name) == [cs EXCEPT ![name] = "RUNNING"]

\* Mutation of loop_from: when the loop ends the workflow is marked
\* completed but the result is not.
loop_from_unfinished(rec, i, st, cs) ==
    IF i > Len(rec.order)
    THEN [run     |-> [rec EXCEPT !.pc = "done", !.pos = i],
          status  |-> IF st = "RUNNING" THEN "COMPLETED" ELSE st,
          cstatus |-> cs]
    ELSE LET name == rec.order[i]
         IN  IF name \notin Range(components)
             THEN except_clause([rec EXCEPT !.pos = i], name, cs)
             ELSE [run |-> [rec EXCEPT
                              !.pc = "await", !.pos = i,
                              !.inputs = Put(@, name,
                                  prepare_component_inputs(dependencies[name],
                                                           rec.component_outputs)),
                              !.trace = Append(@, <<"call", name>>)],
                   status  |-> st,
                   cstatus |-> mark_running(cs, name)]

\* The for loop of execute from iteration i up to the next await, or past
\* the loop to the return.  st and cs are Workflow.status and the component
\* statuses on entry.
loop_from(rec, i, st, cs) ==
    IF i > Len(rec.order)
    THEN IF st = "RUNNING"
         THEN [run     |-> [rec EXCEPT !.pc = "done", !.pos = i,
                                       !.result_status = "COMPLETED"],
               status  |-> "COMPLETED",
               cstatus |-> cs]
         ELSE [run |-> [rec EXCEPT !.pc = "done", !.pos = i], status |-> st, cstatus |-> cs]
    ELSE LET name == rec.order[i]
         IN  IF name \notin Range(components)
             THEN except_clause([rec EXCEPT !.pos = i], name, cs)
             ELSE [run |-> [rec EXCEPT
                              !.pc = "await", !.pos = i,
                              !.inputs = Put(@, name,
                                  prepare_component_inputs(dependencies[name],
                                                           rec.component_outputs)),
                              !.trace = Append(@, <<"call", name>>)],
                   status  |-> st,
                   cstatus |-> mark_running(cs, name)]

\* Mutation of Commit: the loop takes the names out of
\* self.execution_order as it goes, so the list is empty after a run that
\* went through it.
Commit_consuming(r, out) ==
    /\ runs' = [runs EXCEPT ![r] = out.run]
    /\ status' = out.status
    /\ cstatus' = out.cstatus
    /\ execution_order' = IF out.run.pc = "done" /\ out.run.result_status = "COMPLETED"
                          THEN <<>> ELSE execution_order
    /\ UNCHANGED <<components, dependencies, outputs, err, nops, pristine, config_ok,
                   inspectVars>>

\* What a stretch of execute() between two suspension points assigns: its
\* locals and result, self.status and the component statuses.
Commit(r, out) ==
    /\ runs' = [runs EXCEPT ![r] = out.run]
    /\ status' = out.status
    /\ cstatus' = out.cstatus
    /\ UNCHANGED <<graphVars, err, nops, pristine, config_ok, inspectVars>>

\* Mutation of new_frame: the loop iterates the components as they were
\* inserted instead of the execution order.
new_frame_insertion_order(order, initial) ==
    [pc |-> "await", order |-> components, pos |-> 0,
     initial_inputs |-> initial, component_outputs |-> initial,
     result_status |-> "RUNNING", component_results |-> EmptyMap,
     errors |-> <<>>, inputs |-> EmptyMap, trace |-> <<>>]

\* The WorkflowResult and the locals of a call that has just been made.
new_frame(order, initial) ==
    [pc |-> "await", order |-> order, pos |-> 0,
     initial_inputs |-> initial, component_outputs |-> initial,
     result_status |-> "RUNNING", component_results |-> EmptyMap,
     errors |-> <<>>, inputs |-> EmptyMap, trace |-> <<>>]

\* Mutation of execute_call: self.status is not set to RUNNING on entry.
execute_call_keep_status(r, initial) ==
    /\ runs[r].pc # "await"
    /\ Commit(r, loop_from(new_frame(execution_order, initial), 1, status, cstatus))

\* execute() is called: everything up to the first await, or to the return
\* when no component is reached.
execute_call(r, initial) ==
    /\ runs[r].pc # "await"
    /\ Commit(r, loop_from(new_frame(execution_order, initial), 1, "RUNNING", cstatus))

\* Mutation of after_result: the data of a failed component is stored in
\* the output table before the failure is looked at.
after_result_store_first(rec, result, errors, st, cs) ==
    LET name == rec.order[rec.pos]
        rec1 == [rec EXCEPT !.component_results = record_result(@, name, result),
                            !.component_outputs = Put(@, name, Data(name, rec.inputs[name])),
                            !.trace = Append(@, <<"return", name>>)]
    IN  IF is_failed(result)
        THEN [run     |-> [rec1 EXCEPT !.errors = extend_errors(@, errors),
                                       !.result_status = "FAILED",
                                       !.pc = "done"],
              status  |-> "FAILED",
              cstatus |-> cs]
        ELSE loop_from(rec1, rec.pos + 1, st, cs)

\* Lines 120-137 for a frame suspended at line 119, when component.execute
\* returns a result with the given status and errors.
after_result(rec, result, errors, st, cs) ==
    LET name == rec.order[rec.pos]
        rec1 == [rec EXCEPT !.component_results = record_result(@, name, result),
                            !.trace = Append(@, <<"return", name>>)]
    IN  IF is_failed(result)
        THEN [run     |-> [rec1 EXCEPT !.errors = extend_errors(@, errors),
                                       !.result_status = "FAILED",
                                       !.pc = "done"],
              status  |-> "FAILED",
              cstatus |-> cs]
        ELSE loop_from([rec1 EXCEPT !.component_outputs =
                                       Put(@, name, Data(name, rec.inputs[name]))],
                       rec.pos + 1, st, cs)

\* The except clause for a frame suspended at line 119, when
\* component.execute raises.
after_raise(rec, st, cs) ==
    except_clause([rec EXCEPT !.trace = Append(@, <<"raise", rec.order[rec.pos]>>)],
                  "exception", cs)

\* Mutation of execute_resume_result: when the last component has returned
\* a result that is not Failed, the loop starts over instead of ending.
execute_resume_result_restart(r, result, errors) ==
    /\ runs[r].pc = "await"
    /\ IF ~is_failed(result) /\ runs[r].pos = Len(runs[r].order)
       THEN Commit(r, loop_from(new_frame(runs[r].order, runs[r].initial_inputs),
                                1, status, cstatus))
       ELSE Commit(r, after_result(runs[r], result, errors, status, cstatus))

\* component.execute returns a result with the given status and errors.
execute_resume_result(r, result, errors) ==
    /\ runs[r].pc = "await"
    /\ Commit(r, after_result(runs[r], result, errors, status, cstatus))

\* component.execute raises instead of returning.
execute_resume_raise(r) ==
    /\ runs[r].pc = "await"
    /\ Commit(r, after_raise(runs[r], status, cstatus))

\* The task running execute() is cancelled while it is suspended in
\* component.execute: asyncio raises CancelledError at the await.  It is
\* not an Exception, so the except clause does not apply and the error
\* leaves execute(): no result is returned and nothing is assigned.
cancel(r) ==
    /\ runs[r].pc = "await"
    /\ LET rec  == runs[r]
           name == rec.order[rec.pos]
       IN  Commit(r, [run     |-> [rec EXCEPT !.pc = "cancelled",
                                              !.trace = Append(@, <<"cancel", name>>)],
                      status  |-> status,
                      cstatus |-> cstatus])

\* The mapping a caller holds after it passed it to the call of frame rec:
\* a non-empty mapping is itself the output table (initial_inputs or {}),
\* an empty one is replaced by a new table and stays empty.
caller_mapping(rec) ==
    IF rec.initial_inputs = EmptyMap THEN EmptyMap ELSE rec.component_outputs

\* No validate() call has returned yet.
NoValidate == [called |-> FALSE, errors |-> <<>>, graph |-> <<>>]

\* No get_component_graph() call has returned yet.
NoGraph == [held |-> FALSE, map |-> EmptyMap, edits |-> 0]

Init ==
    /\ components = <<>>
    /\ dependencies = [n \in Names |-> <<>>]
    /\ outputs = [n \in Names |-> <<>>]
    /\ execution_order = <<>>
    /\ err = "ok"
    /\ nops = 0
    /\ pristine = TRUE
    /\ status = "PENDING"
    /\ cstatus = [n \in Names |-> "PENDING"]
    /\ runs = [r \in Runs |-> IdleRun]
    /\ config_ok = [n \in Names |-> TRUE]
    /\ validate_result = NoValidate
    /\ graph_result = NoGraph

\* Workflow.add_component with a new Component object of the given name
\* whose validate_config() returns ok.
add_component_cfg(name, ok) ==
    /\ nops' = nops + 1
    /\ IF name \in Range(components)
       THEN /\ err' = "exists"
            /\ UNCHANGED <<graphVars, cstatus, config_ok>>
       ELSE /\ components' = Append(components, name)
            /\ dependencies' = [dependencies EXCEPT ![name] = <<>>]
            /\ outputs' = [outputs EXCEPT ![name] = <<>>]
            /\ cstatus' = [cstatus EXCEPT ![name] = "PENDING"]
            /\ config_ok' = [config_ok EXCEPT ![name] = ok]
            /\ Reorder(components', dependencies')
    /\ pristine' = (pristine /\ err' = "ok")
    /\ UNCHANGED <<runVars, inspectVars>>

\* Mutation of add_component: no duplicate check, the new object replaces
\* the one held under the name.
add_component_nocheck(name) ==
    /\ nops' = nops + 1
    /\ components' = IF name \in Range(components) THEN components
                     ELSE Append(components, name)
    /\ dependencies' = [dependencies EXCEPT ![name] = <<>>]
    /\ outputs' = [outputs EXCEPT ![name] = <<>>]
    /\ cstatus' = [cstatus EXCEPT ![name] = "PENDING"]
    /\ config_ok' = [config_ok EXCEPT ![name] = TRUE]
    /\ Reorder(components', dependencies')
    /\ pristine' = (pristine /\ err' = "ok")
    /\ UNCHANGED <<runVars, inspectVars>>

\* Workflow.add_component with a component whose configuration is valid,
\* as the MockComponent of the tests.
add_component(name) == add_component_cfg(name, TRUE)

\* Mutation of remove_component: an absent name is ignored silently.
remove_component_lenient(name) ==
    /\ nops' = nops + 1
    /\ components' = Without(components, name)
    /\ dependencies' = [dependencies EXCEPT ![name] = <<>>]
    /\ outputs' = [outputs EXCEPT ![name] = <<>>]
    /\ cstatus' = [cstatus EXCEPT ![name] = "PENDING"]
    /\ config_ok' = [config_ok EXCEPT ![name] = TRUE]
    /\ Reorder(components', dependencies')
    /\ pristine' = FALSE
    /\ UNCHANGED <<runVars, inspectVars>>

\* Workflow.remove_component.
remove_component(name) ==
    /\ nops' = nops + 1
    /\ IF name \notin Range(components)
       THEN /\ err' = "not_found"
            /\ UNCHANGED <<graphVars, cstatus, config_ok>>
       ELSE /\ components' = Without(components, name)
            /\ dependencies' = [dependencies EXCEPT ![name] = <<>>]
            /\ outputs' = [outputs EXCEPT ![name] = <<>>]
            /\ cstatus' = [cstatus EXCEPT ![name] = "PENDING"]
            /\ config_ok' = [config_ok EXCEPT ![name] = TRUE]
            /\ Reorder(components', dependencies')
    /\ pristine' = FALSE
    /\ UNCHANGED <<runVars, inspectVars>>

\* Mutation of connect_components: the target is checked only after the
\* source's outputs were extended.
connect_components_late_check(source, target) ==
    /\ nops' = nops + 1
    /\ IF source \notin Range(components)
       THEN /\ err' = "source_not_found"
            /\ UNCHANGED graphVars
       ELSE IF target \notin Range(components)
       THEN /\ err' = "target_not_found"
            /\ outputs' = [outputs EXCEPT ![source] = add_output(@, target)]
            /\ UNCHANGED <<components, dependencies, execution_order>>
       ELSE /\ components' = components
            /\ LET d1 == [dependencies EXCEPT ![target] = add_dependency(@, source)]
               IN  /\ dependencies' = d1
                   /\ outputs' = [outputs EXCEPT ![source] = add_output(@, target)]
                   /\ Reorder(components, d1)
    /\ pristine' = (pristine /\ err' = "ok")
    /\ UNCHANGED <<cstatus, runVars, config_ok, inspectVars>>

\* Workflow.connect_components.
connect_components(source, target) ==
    /\ nops' = nops + 1
    /\ IF source \notin Range(components)
       THEN /\ err' = "source_not_found"
            /\ UNCHANGED graphVars
       ELSE IF target \notin Range(components)
       THEN /\ err' = "target_not_found"
            /\ UNCHANGED graphVars
       ELSE /\ components' = components
            /\ LET d1 == [dependencies EXCEPT ![target] = add_dependency(@, source)]
               IN  /\ dependencies' = d1
                   /\ outputs' = [outputs EXCEPT ![source] = add_output(@, target)]
                   /\ Reorder(components, d1)
    /\ pristine' = (pristine /\ err' = "ok")
    /\ UNCHANGED <<cstatus, runVars, config_ok, inspectVars>>

(***************************************************************************)
(* Workflow.validate and Workflow.get_component_graph, and what a caller   *)
(* can do with what they return.                                           *)
(***************************************************************************)
\* The caller calls add_dependency on a component of the workflow directly,
\* as test_workflow_validation does: no output is recorded and the order is
\* not recomputed.
component_add_dependency(name, dependency) ==
    /\ name \in Range(components)
    /\ nops' = nops + 1
    /\ dependencies' = [dependencies EXCEPT ![name] = add_dependency(@, dependency)]
    /\ pristine' = FALSE
    /\ UNCHANGED <<components, outputs, execution_order, err, cstatus, runVars,
                   config_ok, inspectVars>>

\* The first loop of validate, for one component: one message for each of
\* its dependencies that is not a component.
RECURSIVE missing_dependencies(_, _, _)
missing_dependencies(name, deps, comps) ==
    IF deps = <<>> THEN <<>>
    ELSE (IF Head(deps) \notin Range(comps)
          THEN <<<<"depends on missing component", name, Head(deps)>>>>
          ELSE <<>>)
         \o missing_dependencies(name, Tail(deps), comps)

\* The first loop of validate over the components todo.
RECURSIVE check_dependencies(_, _, _)
check_dependencies(todo, comps, dps) ==
    IF todo = <<>> THEN <<>>
    ELSE missing_dependencies(Head(todo), dps[Head(todo)], comps)
         \o check_dependencies(Tail(todo), comps, dps)

\* The second loop of validate over the components todo.
RECURSIVE check_configs(_, _)
check_configs(todo, cfg) ==
    IF todo = <<>> THEN <<>>
    ELSE (IF ~cfg[Head(todo)] THEN <<<<"has invalid configuration", Head(todo)>>>> ELSE <<>>)
         \o check_configs(Tail(todo), cfg)

\* Mutation of validate_errors: the configurations are not checked.
validate_errors_no_config(comps, dps, cfg) == check_dependencies(comps, comps, dps)

\* The list validate() returns.
validate_errors(comps, dps, cfg) ==
    check_dependencies(comps, comps, dps) \o check_configs(comps, cfg)

\* The structure validate() reads and must leave alone.
Structure == <<components, dependencies, outputs, execution_order, config_ok>>

\* Remove from deps the names that are not in comps.
Pruned(deps, comps) == SelectSeq(deps, LAMBDA d : d \in Range(comps))

\* Mutation of validate: it repairs what it reports, dropping the missing
\* dependencies.
validate_repairing ==
    /\ dependencies' = [n \in Names |-> Pruned(dependencies[n], components)]
    /\ validate_result' =
           [called |-> TRUE,
            errors |-> validate_errors(components, dependencies, config_ok),
            graph  |-> <<components, dependencies', outputs, execution_order, config_ok>>]
    /\ UNCHANGED <<components, outputs, execution_order, err, nops, pristine, cstatus,
                   runVars, config_ok, graph_result>>

\* Workflow.validate.  The result is kept with the structure as the call
\* left it, so that a later call can be told to be on an unchanged graph.
validate ==
    /\ validate_result' =
           [called |-> TRUE,
            errors |-> validate_errors(components, dependencies, config_ok),
            graph  |-> Structure]
    /\ UNCHANGED <<graphVars, err, nops, pristine, cstatus, runVars, config_ok,
                   graph_result>>

\* Mutation of get_dependencies: the component's own list is returned.
get_dependencies_alias(deps) == [list |-> deps, own |-> TRUE]

\* Component.get_dependencies: a copy of the list.  own tells whether the
\* returned list is the component's own list object.
get_dependencies(deps) == [list |-> deps, own |-> FALSE]

\* Workflow.get_component_graph.
get_component_graph ==
    /\ graph_result' =
           [held  |-> TRUE,
            map   |-> [n \in Range(components) |-> get_dependencies(dependencies[n])],
            edits |-> 0]
    /\ UNCHANGED <<graphVars, err, nops, pristine, cstatus, runVars, config_ok,
                   validate_result>>

\* The caller appends a name to a list of the returned mapping.
caller_appends(name, x) ==
    /\ graph_result.held
    /\ name \in DOMAIN graph_result.map
    /\ x \notin Range(graph_result.map[name].list)
    /\ graph_result' = [graph_result EXCEPT !.map[name].list = Append(@, x),
                                            !.edits = @ + 1]
    /\ dependencies' = IF graph_result.map[name].own
                       THEN [dependencies EXCEPT ![name] = Append(@, x)]
                       ELSE dependencies
    /\ UNCHANGED <<components, outputs, execution_order, err, nops, pristine, cstatus,
                   runVars, config_ok, validate_result>>

\* The caller deletes a key of the returned mapping.
caller_deletes(name) ==
    /\ graph_result.held
    /\ name \in DOMAIN graph_result.map
    /\ graph_result' = [graph_result EXCEPT
                           !.map = [n \in (DOMAIN @) \ {name} |-> @[n]],
                           !.edits = @ + 1]
    /\ UNCHANGED <<graphVars, err, nops, pristine, cstatus, runVars, config_ok,
                   validate_result>>

\* No execute() call is in progress.
NoRunActive == \A q \in Runs : runs[q].pc # "await"

GraphOp ==
    \/ \E n \in Names : add_component(n)
    \/ \E n \in Names : remove_component(n)
    \/ \E s, t \in Names : connect_components(s, t)

RunStep(r) ==
    \/ \E result \in {"COMPLETED", "FAILED"}, errors \in ErrorLists :
          /\ (result = "COMPLETED" => errors = <<>>)
          /\ execute_resume_result(r, result, errors)
    \/ execute_resume_raise(r)

\* Building a graph: a sequence of add and connect calls that ends at the
\* first call that raises.
NextBuild ==
    /\ pristine
    /\ nops < MaxBuildOps
    /\ \/ \E n \in Names : add_component(n)
       \/ \E s, t \in Names : connect_components(s, t)

SpecBuild == Init /\ [][NextBuild]_vars

\* The graph and the engine, with structural changes and runs serialized
\* by the caller: one execute() call at a time, no change during a run.
Next ==
    \/ nops < MaxOps /\ NoRunActive /\ GraphOp
    \/ NoRunActive /\ \E initial \in InitialInputs : execute_call(1, initial)
    \/ RunStep(1)

Spec == Init /\ [][Next]_vars

\* Spec with every component.execute that was called eventually returning
\* or raising.
SpecLive == Init /\ [][Next]_vars /\ WF_vars(RunStep(1))

\* As Spec, with three names and one more structural call, which is what
\* a chain of three steps takes.
NextChain ==
    \/ /\ nops < MaxChainOps
       /\ NoRunActive
       /\ \/ \E n \in ChainNames : add_component(n)
          \/ \E n \in ChainNames : remove_component(n)
          \/ \E s, t \in ChainNames : connect_components(s, t)
    \/ NoRunActive /\ \E initial \in InitialInputs : execute_call(1, initial)
    \/ RunStep(1)

SpecChain == Init /\ [][NextChain]_vars

\* The graph under validation: structural calls with components of valid
\* or invalid configuration, direct add_dependency calls, and validate().
NextValidate ==
    \/ /\ nops < MaxInspectOps
       /\ \/ \E n \in ChainNames, ok \in BOOLEAN : add_component_cfg(n, ok)
          \/ \E n \in ChainNames : remove_component(n)
          \/ \E s, t \in ChainNames : connect_components(s, t)
          \/ \E n, d \in ChainNames : component_add_dependency(n, d)
    \/ validate

SpecValidate == Init /\ [][NextValidate]_vars

\* The graph under introspection: structural calls, get_component_graph()
\* and a caller changing the mapping it got.
NextGraphView ==
    \/ /\ nops < MaxInspectOps
       /\ \/ \E n \in ChainNames : add_component(n)
          \/ \E n \in ChainNames : remove_component(n)
          \/ \E s, t \in ChainNames : connect_components(s, t)
    \/ get_component_graph
    \/ /\ graph_result.edits < MaxEdits
       /\ \/ \E n, x \in ChainNames : caller_appends(n, x)
          \/ \E n \in ChainNames : caller_deletes(n)

SpecGraphView == Init /\ [][NextGraphView]_vars

\* Structural calls on the names of PairNames, made between runs.
PairGraphOp ==
    /\ nops < MaxPairOps
    /\ NoRunActive
    /\ \/ \E n \in PairNames : add_component(n)
       \/ \E n \in PairNames : remove_component(n)
       \/ \E s, t \in PairNames : connect_components(s, t)
       \/ \E n, d \in PairNames : component_add_dependency(n, d)

\* The initial_inputs a caller passes when it has made the call of frame q
\* before: nothing, a new mapping, or the mapping it passed to that call.
ReuseInputs(q) ==
    {EmptyMap, [k \in {"input_data"} |-> Seed(k)], caller_mapping(runs[q])}

\* One graph used for run after run: the calls of frames 1 and 2 follow
\* each other without overlapping.
NextReuse ==
    \/ PairGraphOp
    \/ NoRunActive /\ \E initial \in ReuseInputs(2) : execute_call(1, initial)
    \/ NoRunActive /\ \E initial \in ReuseInputs(1) : execute_call(2, initial)
    \/ RunStep(1)
    \/ RunStep(2)

SpecReuse == Init /\ [][NextReuse]_vars

\* Two execute() calls on one graph in progress at once, interleaved at
\* the awaits; structural calls are still made between runs only.
NextConcurrent ==
    \/ PairGraphOp
    \/ \E initial \in ReuseInputs(2) : execute_call(1, initial)
    \/ \E initial \in ReuseInputs(1) : execute_call(2, initial)
    \/ RunStep(1)
    \/ RunStep(2)

SpecConcurrent == Init /\ [][NextConcurrent]_vars

\* As Spec, with the caller cancelling the task of a run in progress.
NextCancel ==
    \/ nops < MaxOps /\ NoRunActive /\ GraphOp
    \/ NoRunActive /\ \E initial \in InitialInputs : execute_call(1, initial)
    \/ RunStep(1)
    \/ cancel(1)

SpecCancel == Init /\ [][NextCancel]_vars

(***************************************************************************)
(* Properties.                                                             *)
(***************************************************************************)
Steps == Range(components)

IsPermutationOf(seq, S) == Len(seq) = Cardinality(S) /\ Range(seq) = S

\* source -> target is an edge of the graph: target depends on source.
Edge(source, target) ==
    /\ source \in Steps
    /\ target \in Steps
    /\ source \in Range(dependencies[target])

DirectDeps(n) == {d \in Steps : Edge(d, n)}

RECURSIVE Closure(_)
Closure(S) ==
    LET T == S \cup UNION {DirectDeps(n) : n \in S}
    IN  IF T = S THEN S ELSE Closure(T)

\* The steps from which n is reachable along dependency edges.
Ancestors(n) == Closure(DirectDeps(n))

Before(seq, a, b) == IndexOf(seq, a) # 0 /\ IndexOf(seq, b) # 0 /\ IndexOf(seq, a) < IndexOf(seq, b)

\* C1: after add and connect calls that all succeeded, execution_order is a
\* permutation of the step names in which the source of every edge comes
\* before its target.
C1_OrderIsTopological ==
    pristine =>
        /\ IsPermutationOf(execution_order, Steps)
        /\ \A s, t \in Steps :
              (s \in Range(dependencies[t]) \/ t \in Range(outputs[s]))
                  => Before(execution_order, s, t)

\* C1 witness: the diamond A->B, A->C, B->D, C->D has been built.
C1_Diamond ==
    /\ pristine
    /\ Steps = {"A", "B", "C", "D"}
    /\ dependencies["A"] = <<>>
    /\ dependencies["B"] = <<"A">>
    /\ dependencies["C"] = <<"A">>
    /\ Range(dependencies["D"]) = {"B", "C"}
    /\ Before(execution_order, "A", "B") /\ Before(execution_order, "A", "C")
    /\ Before(execution_order, "B", "D") /\ Before(execution_order, "C", "D")

\* C2: a connect call that raises the cycle error leaves every dependencies
\* list, every outputs list and the order as they were.
C2_CycleLeavesGraphUnchanged ==
    [][\A s, t \in Names :
          (connect_components(s, t) /\ err' = "circular")
              => UNCHANGED <<dependencies, outputs, execution_order>>]_vars

\* C3: in every reachable state no step is reachable from itself along
\* dependency edges.
C3_Acyclic == \A n \in Steps : n \notin Ancestors(n)

\* C4: in every reachable state execution_order holds every current step
\* name exactly once and nothing else.
C4_OrderIsPermutation == IsPermutationOf(execution_order, Steps)

\* C5: dependencies and outputs mirror each other: A is in B's dependencies
\* exactly when A is a step whose outputs contain B.
C5_Mirror ==
    \A a \in Names, b \in Steps :
        (a \in Range(dependencies[b])) <=> (a \in Steps /\ b \in Range(outputs[a]))

\* C6: removing an existing step leaves its name in no steps, no order and
\* no dependencies or outputs list of a remaining step.
C6_RemoveDropsEdges ==
    [][\A n \in Names :
          (n \in Steps /\ remove_component(n))
              => /\ n \notin Range(components')
                 /\ n \notin Range(execution_order')
                 /\ \A m \in Range(components') :
                       /\ n \notin Range(dependencies'[m])
                       /\ n \notin Range(outputs'[m])]_vars

Called(rec, n) == <<"call", n>> \in Range(rec.trace)

\* Number of times execute of n was invoked in the run.
Calls(rec, n) == Cardinality({i \in 1..Len(rec.trace) : rec.trace[i] = <<"call", n>>})

\* C7: once a step has returned a Failed result the run has ended Failed,
\* the result of that step is recorded, and no step after it in the order
\* is invoked or recorded.
C7_FailFast ==
    \A r \in Runs :
        LET rec == runs[r]
        IN  \A n \in DOMAIN rec.component_results :
                rec.component_results[n] = "FAILED"
                    => /\ rec.pc = "done"
                       /\ rec.result_status = "FAILED"
                       /\ rec.order[rec.pos] = n
                       /\ rec.trace[Len(rec.trace)] = <<"return", n>>
                       /\ \A j \in (rec.pos + 1)..Len(rec.order) :
                             /\ ~Called(rec, rec.order[j])
                             /\ rec.order[j] \notin DOMAIN rec.component_results

\* C7 witness: in the graph A->B, A failed and B was never invoked.
C7_AFailsBNotRun ==
    /\ components = <<"A", "B">>
    /\ dependencies["B"] = <<"A">>
    /\ runs[1].pc = "done"
    /\ runs[1].order = <<"A", "B">>
    /\ runs[1].result_status = "FAILED"
    /\ DOMAIN runs[1].component_results = {"A"}
    /\ ~Called(runs[1], "B")

\* An execute() call returns in this step.
Returns(r) == runs'[r] # runs[r] /\ runs'[r].pc = "done"

NoneFailedOrRaised(rec) ==
    \A i \in 1..Len(rec.trace) :
        /\ rec.trace[i][1] # "raise"
        /\ rec.trace[i][1] = "return" => rec.component_results[rec.trace[i][2]] # "FAILED"

\* C8: a run returns Completed exactly when every step of the order was
\* invoked and none returned Failed or raised, and then the results have
\* an entry for every step of the graph.
C8_CompletedIffAllRan ==
    [][\A r \in Runs :
          Returns(r) =>
              LET rec == runs'[r]
              IN  /\ (rec.result_status = "COMPLETED")
                        <=> /\ \A i \in 1..Len(rec.order) : Called(rec, rec.order[i])
                            /\ NoneFailedOrRaised(rec)
                  /\ (rec.result_status = "COMPLETED")
                        => Steps \subseteq DOMAIN rec.component_results]_vars

\* Position in the order of the first step that returned Failed or raised,
\* Len(order) + 1 when there is none.
FirstFailure(rec) ==
    LET bad == {i \in 1..Len(rec.order) :
                   \/ <<"raise", rec.order[i]>> \in Range(rec.trace)
                   \/ /\ rec.order[i] \in DOMAIN rec.component_results
                      /\ rec.component_results[rec.order[i]] = "FAILED"}
    IN  IF bad = {} THEN Len(rec.order) + 1
        ELSE CHOOSE i \in bad : \A j \in bad : i <= j

\* C9: in a finished run every step up to and including the first one that
\* failed or raised was invoked exactly once, every later one never.
C9_ExactlyOnceUpToFailure ==
    \A r \in Runs :
        LET rec == runs[r]
        IN  rec.pc = "done" =>
                \A i \in 1..Len(rec.order) :
                    Calls(rec, rec.order[i]) = (IF i <= FirstFailure(rec) THEN 1 ELSE 0)

\* C10: whenever two invoked steps are ancestor and descendant, the
\* ancestor's execute returned before the descendant's was invoked.
C10_AncestorsFirst ==
    \A r \in Runs :
        LET rec == runs[r]
        IN  rec.pc = "await" =>
                \A a, b \in Steps :
                    (a # b /\ Called(rec, a) /\ Called(rec, b) /\ a \in Ancestors(b))
                        => Before(rec.trace, <<"return", a>>, <<"call", b>>)

\* The graph is the chain A->B->C.
IsChain ==
    /\ Steps = {"A", "B", "C"}
    /\ dependencies["A"] = <<>>
    /\ dependencies["B"] = <<"A">>
    /\ dependencies["C"] = <<"B">>

\* C11: a run of the chain A->B->C in which every step succeeds returns
\* Completed with results for exactly A, B and C; B was handed A's output
\* under "A" and C was handed B's output under "B"; with ingest, double and
\* sum as the steps and no initial inputs, the data of the last step is 12.
C11_ChainThreadsOutputs ==
    [][\A r \in Runs :
          (Returns(r) /\ IsChain /\ NoneFailedOrRaised(runs'[r])) =>
              LET rec == runs'[r]
              IN  /\ rec.result_status = "COMPLETED"
                  /\ DOMAIN rec.component_results = {"A", "B", "C"}
                  /\ \A n \in {"A", "B", "C"} : rec.component_results[n] = "COMPLETED"
                  /\ DOMAIN rec.inputs["B"] = {"A"}
                  /\ rec.inputs["B"]["A"] = Data("A", rec.inputs["A"])
                  /\ DOMAIN rec.inputs["C"] = {"B"}
                  /\ rec.inputs["C"]["B"] = Data("B", rec.inputs["B"])
                  /\ rec.initial_inputs = EmptyMap
                        => rec.component_outputs["C"] = 12]_vars

\* C11 witness: the chain has run to completion from empty initial inputs.
C11_ChainCompleted ==
    /\ IsChain
    /\ runs[1].pc = "done"
    /\ runs[1].order = <<"A", "B", "C">>
    /\ runs[1].initial_inputs = EmptyMap
    /\ runs[1].result_status = "COMPLETED"
    /\ runs[1].inputs["B"] = [k \in {"A"} |-> <<1, 2, 3>>]
    /\ runs[1].inputs["C"] = [k \in {"B"} |-> <<2, 4, 6>>]
    /\ runs[1].component_outputs["C"] = 12

\* C12: when the only component has no dependencies and the initial inputs
\* are not empty, a run in which it succeeds returns Completed and the
\* component was handed a mapping equal to the initial inputs.
C12_SeedHandedToRoot ==
    [][\A r \in Runs :
          (/\ Returns(r)
           /\ Len(components) = 1
           /\ dependencies[components[1]] = <<>>
           /\ runs'[r].initial_inputs # EmptyMap
           /\ NoneFailedOrRaised(runs'[r])) =>
              LET rec == runs'[r]
              IN  /\ rec.result_status = "COMPLETED"
                  /\ components[1] \in DOMAIN rec.inputs
                  /\ rec.inputs[components[1]] = rec.initial_inputs]_vars

\* C13: once a step's execute has raised, the run has returned Failed with
\* the exception message among its errors, and no step after it in the
\* order was invoked.
C13_RaiseIsCaught ==
    \A r \in Runs :
        LET rec == runs[r]
        IN  \A n \in Names :
                <<"raise", n>> \in Range(rec.trace)
                    => /\ rec.pc = "done"
                       /\ rec.result_status = "FAILED"
                       /\ "exception" \in Range(rec.errors)
                       /\ rec.order[rec.pos] = n
                       /\ \A j \in (rec.pos + 1)..Len(rec.order) :
                             ~Called(rec, rec.order[j])

\* C13 witness: the first of two steps raised and the run has returned.
C13_FirstOfTwoRaised ==
    /\ runs[1].pc = "done"
    /\ Len(runs[1].order) = 2
    /\ runs[1].trace = <<<<"call", runs[1].order[1]>>, <<"raise", runs[1].order[1]>>>>
    /\ runs[1].result_status = "FAILED"

\* C14: adding a step under a name that is already a step raises the
\* duplicate error and changes no step, no edge and not the order.
C14_DuplicateAddRejected ==
    [][\A n \in Names :
          (n \in Steps /\ add_component(n))
              => /\ err' = "exists"
                 /\ UNCHANGED <<components, dependencies, outputs, execution_order,
                                cstatus>>]_vars

\* C14 witness: a duplicate add was rejected on a graph that has an edge.
C14_DuplicateSeen ==
    /\ err = "exists"
    /\ \E s, t \in Steps : s # t /\ Edge(s, t)

\* C15: connect with an absent endpoint raises the not-found error, for
\* the source when the source is absent, and changes no dependencies list,
\* no outputs list and not the order.
C15_ConnectMissingRejected ==
    [][\A s, t \in Names :
          ((s \notin Steps \/ t \notin Steps) /\ connect_components(s, t))
              => /\ err' = (IF s \notin Steps THEN "source_not_found"
                                               ELSE "target_not_found")
                 /\ UNCHANGED <<components, dependencies, outputs, execution_order>>]_vars

\* C15 witness: a connect was rejected for its target on a graph with a step.
C15_TargetMissingSeen ==
    /\ err = "target_not_found"
    /\ Steps # {}

\* C16: removing a name that is not a step raises the not-found error and
\* changes no step, no edge and not the order.
C16_RemoveMissingRejected ==
    [][\A n \in Names :
          (n \notin Steps /\ remove_component(n))
              => /\ err' = "not_found"
                 /\ UNCHANGED <<components, dependencies, outputs, execution_order,
                                cstatus>>]_vars

\* C16 witness: a remove was rejected on a graph that has an edge.
C16_RemoveMissingSeen ==
    /\ err = "not_found"
    /\ \E s, t \in Steps : s # t /\ Edge(s, t)

\* C17: adding a step under a new name never raises: the step is inserted
\* and the recomputed order contains its name.
C17_AddNewSucceeds ==
    [][\A n \in Names :
          (n \notin Steps /\ add_component(n))
              => /\ err' = "ok"
                 /\ n \in Range(components')
                 /\ n \in Range(execution_order')]_vars

\* C18: validate() changes no step, no dependencies or outputs list and not
\* the order, and a call on the graph as the previous call left it returns
\* the same list as that call.
C18_ValidateIsPure ==
    [][validate =>
          /\ UNCHANGED <<Structure, cstatus>>
          /\ (validate_result.called /\ validate_result.graph = Structure)
                => validate_result'.errors = validate_result.errors]_vars

\* C18 witness: validate() has returned problems for the graph as it is now.
C18_ValidatedWithProblems ==
    /\ validate_result.called
    /\ validate_result.graph = Structure
    /\ validate_result.errors # <<>>
    /\ Steps # {}

\* The problems of a graph: its (step, missing dependency) pairs and its
\* steps of invalid configuration.
MissingPairs(comps, dps) ==
    {p \in Range(comps) \X Names : p[2] \in Range(dps[p[1]]) /\ p[2] \notin Range(comps)}

InvalidSteps(comps, cfg) == {n \in Range(comps) : ~cfg[n]}

\* C19: the list validate() returned holds exactly one problem for every
\* (step, missing dependency) pair and one for every step whose
\* validate_config() is false, and is empty exactly when there is neither.
C19_ValidateReportsAll ==
    validate_result.called =>
        LET comps    == validate_result.graph[1]
            dps      == validate_result.graph[2]
            cfg      == validate_result.graph[5]
            expected == {<<"depends on missing component", p[1], p[2]>> :
                            p \in MissingPairs(comps, dps)}
                        \cup {<<"has invalid configuration", n>> :
                                 n \in InvalidSteps(comps, cfg)}
        IN  /\ Range(validate_result.errors) = expected
            /\ Len(validate_result.errors) = Cardinality(expected)
            /\ (validate_result.errors = <<>>)
                  <=> (MissingPairs(comps, dps) = {} /\ InvalidSteps(comps, cfg) = {})

\* C19 witness: validate() reported a missing dependency and an invalid
\* configuration in one list.
C19_BothKindsReported ==
    /\ validate_result.called
    /\ \E i, j \in 1..Len(validate_result.errors) :
          /\ validate_result.errors[i][1] = "depends on missing component"
          /\ validate_result.errors[j][1] = "has invalid configuration"

\* C20: get_component_graph() returns a mapping over exactly the current
\* steps, each with its dependency names in the order they were connected
\* (connect appends a new source and keeps the rest), and a caller changing
\* the returned mapping or its lists changes nothing of the graph.
C20_GraphViewIsCopy ==
    [][/\ get_component_graph =>
             /\ DOMAIN graph_result'.map = Steps
             /\ \A n \in Steps : graph_result'.map[n].list = dependencies[n]
       /\ \A s, t \in Names :
             (connect_components(s, t) /\ s \in Steps /\ t \in Steps) =>
                 /\ dependencies'[t] = IF s \in Range(dependencies[t])
                                       THEN dependencies[t]
                                       ELSE Append(dependencies[t], s)
                 /\ \A m \in Names \ {t} : dependencies'[m] = dependencies[m]
       /\ ((\E n, x \in Names : caller_appends(n, x)) \/ (\E n \in Names : caller_deletes(n)))
             => UNCHANGED <<components, dependencies, outputs, execution_order>>]_vars

\* C20 witness: C was connected to B first and A second, the mapping was
\* returned, and the caller has extended the list it got for A.
C20_EditedCopy ==
    /\ dependencies["C"] = <<"B", "A">>
    /\ dependencies["A"] = <<>>
    /\ graph_result.held
    /\ DOMAIN graph_result.map = {"A", "B", "C"}
    /\ graph_result.map["C"].list = <<"B", "A">>
    /\ graph_result.map["A"].list # <<>>

Terminal == {"COMPLETED", "FAILED", "CANCELLED"}

\* C21: with the runs of a graph serialized, every call returns a result
\* whose status is Completed, Failed or Cancelled, and Workflow.status is
\* then that status; the workflow is Running exactly while a call is in
\* progress and Pending only as long as no call was made.
C21_ReturnsTerminalStatus ==
    [][/\ \A r \in Runs :
             Returns(r) => /\ runs'[r].result_status \in Terminal
                           /\ status' = runs'[r].result_status
       /\ (status' = "RUNNING") <=> (\E r \in Runs : runs'[r].pc = "await")
       /\ (status' = "PENDING") => (\A r \in Runs : runs'[r].pc = "idle")
       /\ (status' = "RUNNING") => status \in {"PENDING", "RUNNING"} \cup Terminal
       /\ (status = "RUNNING") => status' \in {"RUNNING"} \cup Terminal]_vars

\* C21 witness: a run of two steps has returned Failed at its second step
\* and the workflow is Failed.
C21_ReturnedFailedAtSecond ==
    /\ runs[1].pc = "done"
    /\ Len(runs[1].order) = 2
    /\ runs[1].pos = 2
    /\ runs[1].result_status = "FAILED"
    /\ status = "FAILED"
    /\ DOMAIN runs[1].component_results = Range(runs[1].order)

\* What a workflow object on which execute() was never called before does
\* with the order, the initial inputs and the step behaviours of rec.
RECURSIVE Replay(_, _, _)
Replay(out, rec, k) ==
    IF k > Len(rec.trace) THEN out
    ELSE LET e == rec.trace[k]
         IN  CASE e[1] = "return" ->
                      Replay(after_result(out.run, rec.component_results[e[2]], <<>>,
                                          out.status, out.cstatus), rec, k + 1)
               [] e[1] = "raise" ->
                      Replay(after_raise(out.run, out.status, out.cstatus), rec, k + 1)
               [] OTHER -> Replay(out, rec, k + 1)

FirstRun(rec) ==
    Replay(loop_from(new_frame(rec.order, rec.initial_inputs), 1, "RUNNING",
                     [n \in Names |-> "PENDING"]),
           rec, 1).run

AllInvoked(rec) == \A i \in 1..Len(rec.order) : Called(rec, rec.order[i])

\* C22: a run that returns has the status, the keys of component_results
\* and the input mappings that a first run of a new workflow object has
\* with the same order, edges, initial inputs and step behaviours; and a
\* run made after a run that returned Failed returns Completed when every
\* step of the order is invoked and none fails or raises.
C22_NoLeakAcrossRuns ==
    [][\A r \in Runs :
          Returns(r) =>
              LET rec == runs'[r]
                  new == FirstRun(rec)
              IN  /\ rec.result_status = new.result_status
                  /\ DOMAIN rec.component_results = DOMAIN new.component_results
                  /\ rec.inputs = new.inputs
                  /\ ((\E q \in Runs \ {r} : runs[q].result_status = "FAILED")
                         /\ AllInvoked(rec) /\ NoneFailedOrRaised(rec))
                        => rec.result_status = "COMPLETED"]_vars

\* C22 witness: the call of frame 2 was handed the mapping the caller had
\* passed to the call of frame 1, which returned Failed, and it has
\* returned Completed after two steps.
C22_CompletedAfterFailed ==
    /\ runs[1].pc = "done"
    /\ runs[1].result_status = "FAILED"
    /\ runs[1].initial_inputs # EmptyMap
    /\ runs[2].pc = "done"
    /\ runs[2].result_status = "COMPLETED"
    /\ runs[2].initial_inputs = runs[1].component_outputs
    /\ runs[1].component_outputs # runs[1].initial_inputs
    /\ Len(runs[2].trace) = 4
    /\ status = "COMPLETED"

\* The task of the run was cancelled at some point.
CancelSignalled(rec) == \E i \in 1..Len(rec.trace) : rec.trace[i][1] = "cancel"

\* The steps whose execute has returned in the run.
Returned(rec) == {n \in Names : <<"return", n>> \in Range(rec.trace)}

\* C23: once cancellation was signalled during a run no further step is
\* invoked, and when the run is over it has returned a result of status
\* Cancelled that records the steps that had completed.
C23_CancelledBetweenSteps ==
    \A r \in Runs :
        LET rec == runs[r]
        IN  CancelSignalled(rec) =>
                /\ rec.trace[Len(rec.trace)][1] # "call"
                /\ rec.pc # "await" =>
                       /\ rec.pc = "done"
                       /\ rec.result_status = "CANCELLED"
                       /\ DOMAIN rec.component_results = Returned(rec)

\* The steps of the run that returned a result that is not Failed.
Succeeded(rec) == {n \in Returned(rec) : rec.component_results[n] # "FAILED"}

C25_FailedHasErrors ==
    \A r \in Runs :
        LET rec == runs[r]
        IN  rec.pc = "done" =>
                /\ rec.result_status = "FAILED" => rec.errors # <<>>
                /\ rec.result_status = "COMPLETED" => rec.errors = <<>>

\* C25 as amended: a run that returns Failed because a step returned Failed
\* has exactly that step result's errors, in order (none when the step
\* reported none); a run that returns Failed because of an exception in
\* the loop has exactly the exception's message; a run that returns
\* Completed has no errors.
C25_ErrorsAreStepErrors ==
    [][\A r \in Runs :
          /\ \A errors \in ErrorLists :
                execute_resume_result(r, "FAILED", errors) =>
                    /\ runs'[r].pc = "done"
                    /\ runs'[r].result_status = "FAILED"
                    /\ runs'[r].errors = errors
          /\ execute_resume_raise(r) =>
                /\ runs'[r].result_status = "FAILED"
                /\ runs'[r].errors = <<"exception">>
          /\ Returns(r) =>
                LET rec == runs'[r]
                IN  /\ rec.result_status = "COMPLETED" => rec.errors = <<>>
                    /\ (rec.result_status = "FAILED" /\ NoneFailedOrRaised(rec))
                          => rec.errors = <<rec.order[rec.pos]>>
                    /\ rec.result_status = "FAILED" => Len(rec.errors) <= 1]_vars

\* C25 witness: the second step of a run returned Failed with a message
\* and the run has returned with that message.
C25_StepErrorsReturned ==
    /\ runs[1].pc = "done"
    /\ runs[1].result_status = "FAILED"
    /\ runs[1].pos = 2
    /\ runs[1].trace[Len(runs[1].trace)][1] = "return"
    /\ runs[1].errors = <<"Mock component failure">>

\* C26: the k-th invocation of a run is that of the k-th step of the
\* order the graph had at the call, and it is made only when the
\* invocation before it has returned: calls and returns alternate, so at
\* most one step of the run is executing.
C26_OneStepAtATime ==
    \A r \in Runs :
        LET rec == runs[r]
        IN  /\ rec.pc = "await" => rec.order = execution_order
            /\ \A i \in 1..Len(rec.trace) :
                  IF i % 2 = 1
                  THEN rec.trace[i] = <<"call", rec.order[(i + 1) \div 2]>>
                  ELSE /\ rec.trace[i][1] \in {"return", "raise"}
                       /\ rec.trace[i][2] = rec.trace[i - 1][2]
            /\ rec.pc = "await" <=> (Len(rec.trace) % 2 = 1)

\* C26 witness: the third step of an order that is not the insertion order
\* is executing after the first two have returned.
C26_ThirdStepExecuting ==
    /\ runs[1].pc = "await"
    /\ Len(runs[1].trace) = 5
    /\ runs[1].pos = 3
    /\ execution_order # components

\* C27: a step is Running while its execute is in progress; once execute
\* has returned the step's status is that of the returned result; and when
\* the run returns no step it invoked is Running.
C27_StepStatusFollowsResult ==
    [][\A r \in Runs :
          (runs'[r] # runs[r]) =>
              LET rec == runs'[r]
              IN  /\ rec.pc = "await" => cstatus'[rec.order[rec.pos]] = "RUNNING"
                  /\ \A n \in DOMAIN rec.component_results :
                        cstatus'[n] = rec.component_results[n]
                  /\ rec.pc = "done" =>
                        \A n \in Names : Called(rec, n) => cstatus'[n] # "RUNNING"]_vars

\* C28: a step of a run changes the status of no step other than the one
\* it invokes, and a run that returns Failed has invoked none of the steps
\* that come after the failing one in the order: their status is what it
\* was when the run began.
C28_LaterStepsUntouched ==
    [][\A r \in Runs :
          (runs'[r] # runs[r]) =>
              LET rec == runs'[r]
              IN  /\ \A n \in Names :
                        cstatus'[n] # cstatus[n] =>
                            /\ rec.pc = "await"
                            /\ rec.order[rec.pos] = n
                            /\ rec.trace # runs[r].trace
                  /\ (rec.pc = "done" /\ rec.result_status = "FAILED") =>
                        \A j \in (rec.pos + 1)..Len(rec.order) :
                            /\ ~Called(rec, rec.order[j])
                            /\ \A i \in 1..rec.pos : rec.order[i] # rec.order[j]
                            /\ cstatus'[rec.order[j]] = cstatus[rec.order[j]]]_vars

\* C28 witness: the first of three steps failed in the first run of the
\* graph and the other two are still Pending.
C28_LaterStepsStillPending ==
    /\ runs[1].pc = "done"
    /\ runs[1].result_status = "FAILED"
    /\ Len(runs[1].order) = 3
    /\ runs[1].pos = 1
    /\ cstatus[runs[1].order[1]] = "RUNNING"
    /\ cstatus[runs[1].order[2]] = "PENDING"
    /\ cstatus[runs[1].order[3]] = "PENDING"

\* The dependencies of n that are steps, in the order they were connected.
StepDeps(n, comps, dps) == SelectSeq(dps[n], LAMBDA d : d \in Range(comps))

\* The depth-first post-order below n written out in full, every step as
\* often as it is reached.
RECURSIVE PostOrderOf(_, _, _)
RECURSIVE PostOrderOfAll(_, _, _)
PostOrderOf(n, comps, dps) ==
    PostOrderOfAll(StepDeps(n, comps, dps), comps, dps) \o <<n>>

PostOrderOfAll(list, comps, dps) ==
    IF list = <<>> THEN <<>>
    ELSE PostOrderOf(Head(list), comps, dps) \o PostOrderOfAll(Tail(list), comps, dps)

\* s with only the first occurrence of every element.
RECURSIVE KeepFirst(_)
KeepFirst(s) ==
    IF s = <<>> THEN <<>>
    ELSE LET front == KeepFirst(SubSeq(s, 1, Len(s) - 1))
             x     == s[Len(s)]
         IN  IF x \in Range(front) THEN front ELSE Append(front, x)

C30_ConcurrentRunsTerminal ==
    [][\A r \in Runs :
          Returns(r) =>
              LET rec == runs'[r]
              IN  /\ rec.result_status \in {"COMPLETED", "FAILED"}
                  /\ (AllInvoked(rec) /\ NoneFailedOrRaised(rec))
                        => rec.result_status = "COMPLETED"]_vars

\* The first k names of a sequence.
Prefix(seq, k) == {seq[i] : i \in 1..k}

\* C31: at every point of a run the keys of component_results are the
\* first k names of the order, k being the number of steps that have
\* returned; when the run ended because a step returned Failed that step
\* is the k-th; and a step whose execute raised has no entry.
C31_ResultsArePrefix ==
    \A r \in Runs :
        LET rec == runs[r]
            k   == Cardinality(Returned(rec))
        IN  /\ k <= Len(rec.order)
            /\ DOMAIN rec.component_results = Prefix(rec.order, k)
            /\ Cardinality(Prefix(rec.order, k)) = k
            /\ \A n \in DOMAIN rec.component_results :
                  rec.component_results[n] = "FAILED" => n = rec.order[k]
            /\ \A n \in Names :
                  <<"raise", n>> \in Range(rec.trace) => n \notin DOMAIN rec.component_results

\* C31 witness: the second of three steps returned Failed and the results
\* hold the first two names of the order.
C31_TwoOfThreeRecorded ==
    /\ runs[1].pc = "done"
    /\ Len(runs[1].order) = 3
    /\ DOMAIN runs[1].component_results = {runs[1].order[1], runs[1].order[2]}
    /\ runs[1].component_results[runs[1].order[2]] = "FAILED"

\* C32: when a call returns, the mapping the caller passed as
\* initial_inputs has the keys and values it had at the call.
C32_InitialInputsUntouched ==
    [][\A r \in Runs :
          Returns(r) => caller_mapping(runs'[r]) = runs'[r].initial_inputs]_vars

\* C33: no step of a run changes the components, a dependencies or outputs
\* list or the order, whether the run goes on, returns Completed or
\* returns Failed.
C33_RunLeavesGraphAlone ==
    [][(\E r \in Runs : runs'[r] # runs[r])
          => UNCHANGED <<components, dependencies, outputs, execution_order>>]_vars

\* C33 witness: a run of a graph with an edge has returned Completed and
\* the order is that of the run.
C33_GraphAfterCompletedRun ==
    /\ runs[1].pc = "done"
    /\ runs[1].result_status = "COMPLETED"
    /\ \E s, t \in Steps : s # t /\ Edge(s, t)
    /\ runs[1].order = execution_order
    /\ Len(execution_order) >= 2

\* Number of entries of the dependencies lists of the steps.
RECURSIVE TotalDeps(_)
TotalDeps(S) ==
    IF S = {} THEN 0
    ELSE LET n == CHOOSE x \in S : TRUE
         IN  Len(dependencies[n]) + TotalDeps(S \ {n})

\* The graph has a cycle among its steps.
Cyclic == \E n \in Steps : n \in Ancestors(n)

\* C34: on every graph, cyclic or not, the order computation ends after at
\* most one call of visit per step and one per dependency entry, either
\* with an order of all steps or, exactly when the graph is cyclic, with
\* the cycle error; and a run in which every invoked execute returns or
\* raises eventually returns.
C34_Terminates ==
    /\ [](LET r == update_execution_order(components, dependencies)
          IN  /\ r.calls <= Cardinality(Steps) + TotalDeps(Steps)
              /\ r.raised <=> Cyclic
              /\ ~r.raised => IsPermutationOf(r.order, Steps))
    /\ (runs[1].pc = "await") ~> (runs[1].pc = "done")

\* C34 witness: a run is in progress on a graph on which the order
\* computation ends with the cycle error.
C34_RunOnCyclicGraph ==
    /\ runs[1].pc = "await"
    /\ Len(runs[1].order) >= 2
    /\ Cyclic
    /\ update_execution_order(components, dependencies).raised

NoDuplicates(seq) == Len(seq) = Cardinality(Range(seq))

\* C35: a connect(source, target) made when the last structural call
\* succeeded and the edge is already there, as after a first connect that
\* succeeded, succeeds and leaves steps, dependencies, outputs and order as
\* they are; and no dependencies or outputs list ever holds a name twice.
C35_ConnectIdempotent ==
    [][/\ \A s, t \in Names :
             (/\ connect_components(s, t)
              /\ err = "ok"
              /\ s \in Steps /\ t \in Steps
              /\ s \in Range(dependencies[t])
              /\ t \in Range(outputs[s]))
                 => /\ err' = "ok"
                    /\ UNCHANGED <<components, dependencies, outputs, execution_order>>
       /\ \A n \in Names : NoDuplicates(dependencies'[n]) /\ NoDuplicates(outputs'[n])]_vars

\* C35 witness: four calls were made and all succeeded, two of them added
\* the two steps, so the other two were the same connect; the graph has
\* the edge once and the order of the first connect.
C35_ConnectedTwice ==
    /\ pristine
    /\ nops = 4
    /\ Len(components) = 2
    /\ \E s, t \in Steps :
          /\ s # t
          /\ dependencies[t] = <<s>>
          /\ outputs[s] = <<t>>
          /\ components = <<t, s>>
          /\ execution_order = <<s, t>>

====
